---------------------------- MODULE Spec2Model ----------------------------
(***************************************************************************)
(* Model of the high-stress alert pipeline: the Lambda dispatcher          *)
(* (src/src/app.py), the Agent run (src/src/agent.py), the three pipeline  *)
(* stages (src/src/processing.py) and the configuration they read          *)
(* (src/src/config.py).                                                    *)
(*                                                                         *)
(* One Lambda container handles events one after the other.  The DynamoDB  *)
(* table, the classifier and S3 are external collaborators: the table is   *)
(* a set of items, the classifier's answer and the parsability of a cell   *)
(* are attributes of the row they are computed from, and the content of a  *)
(* file, the outcome of a download, of a put_item and of a query are       *)
(* chosen when the code performs the call.                                 *)
(*                                                                         *)
(* Numbers with a fractional part (stress_level, sleep_hours, ...) are     *)
(* kept in tenths: 425 stands for 42.5.                                    *)
(***************************************************************************)
EXTENDS Integers, Sequences, FiniteSets, TLC

(***************************************************************************)
(* Bounds of the model.                                                    *)
(***************************************************************************)
MaxRows == 2            \* rows of one batch file
MaxInvocations == 2     \* events handled by the container
MaxRuns == 2            \* files run by the container
MaxSqsRecords == 2      \* records of one SQS event
MaxPageLen == 2         \* items of one page of a table query
MaxWorkers == 2         \* ingest invocations that write at the same time

(***************************************************************************)
(* src/src/config.py                                                       *)
(***************************************************************************)
STRESS_THRESHOLD == 42

Unset == "<unset>"
EnvValues == {Unset, "False", "True", ""}

\* os.environ.get(name, default)
EnvGet(value, default) == IF value = Unset THEN default ELSE value

\* RUNNING_LOCALLY = os.environ.get("RUNNING_LOCALLY", "False")
RunningLocallyOf(value) == EnvGet(value, "False")

\* Python truth value of a str: only the empty string is false.
Truthy(s) == s # ""

LOCAL_CSV_FILE_NAME == <<"resources", "university_mental_health_iot_dataset.csv">>

\* Tenths of the integer n.
Tenths(n) == n * 10

\* str(value) of an int64 and of a float64 without fraction, as a text:
\* "101" is <<101>> and "101.0" is <<101, 0>>.
Str(value, dtype) == IF dtype = "int64" THEN <<value>> ELSE <<value, 0>>

\* The name of a column is <<prefix, suffix>>: <<"sleep_hours", <<>>>> is
\* sleep_hours, <<"location_id", <<101>>>> is location_id_101 and
\* <<"location_id", <<101, 0>>>> is location_id_101.0.
Column(prefix, suffix) == <<prefix, suffix>>

NUMERICAL_FEATURES ==
    <<Column("temperature_celsius", <<>>), Column("humidity_percent", <<>>),
      Column("air_quality_index", <<>>), Column("noise_level_db", <<>>),
      Column("lighting_lux", <<>>), Column("crowd_density", <<>>),
      Column("sleep_hours", <<>>), Column("mood_score", <<>>)>>

TRAINING_COLUMNS ==
    NUMERICAL_FEATURES \o
    <<Column("location_id", <<101>>), Column("location_id", <<102>>),
      Column("location_id", <<103>>), Column("location_id", <<104>>),
      Column("location_id", <<105>>)>>

(***************************************************************************)
(* Paths.  A path or an S3 object key is <<directory, file name>>.         *)
(***************************************************************************)
\* os.path.basename
Basename(path) == path[2]

\* f"/tmp/{os.path.basename(s3_key)}"
DownloadPath(s3_key) == <<"/tmp", Basename(s3_key)>>

S3Keys == {<<"incoming", "a.csv">>, <<"archive", "a.csv">>, <<"incoming", "b.csv">>}
QueryFiles == {"a.csv", "legacy.csv", "corrupt.csv"}

(***************************************************************************)
(* Rows of a batch file.                                                   *)
(*   stress_level     tenths                                               *)
(*   location_id      the campus location                                  *)
(*   location_dtype   the dtype pd.read_csv gives the location_id column:  *)
(*                    "int64" when every cell is an integer, "float64"     *)
(*                    when the cells are written as 101.0                  *)
(*   features         "numeric" when the eight numerical cells convert to  *)
(*                    float32, "malformed" when one of them does not       *)
(*   label            what sess.run answers on the row's feature vector:   *)
(*                    "1", "0", or "raise" when the session raises         *)
(*   timestamp        seconds and microseconds, or NaT                     *)
(* and the eight numerical cells, in tenths.                               *)
(***************************************************************************)
NaT == [kind |-> "NaT", sec |-> 0, micro |-> 0]
Time(s, us) == [kind |-> "time", sec |-> s, micro |-> us]

Row(stress, loc, feat, lab, ts) ==
    [stress_level |-> stress, location_id |-> loc, location_dtype |-> "int64",
     features |-> feat, label |-> lab, timestamp |-> ts,
     temperature_celsius |-> 215, humidity_percent |-> 480, air_quality_index |-> 700,
     noise_level_db |-> 550, lighting_lux |-> 3000, crowd_density |-> 120,
     sleep_hours |-> 65, mood_score |-> 30]

RowKinds ==
    { Row(500, 101, "numeric",   "1",     Time(1, 0)),
      Row(100, 102, "numeric",   "1",     Time(2, 0)),
      Row(600, 103, "numeric",   "0",     Time(3, 0)),
      Row(420, 101, "numeric",   "1",     Time(4, 0)),
      Row(425, 999, "numeric",   "1",     Time(5, 250)),
      Row(550, 104, "malformed", "1",     Time(6, 0)),
      Row(700, 105, "numeric",   "raise", Time(7, 0)),
      Row(800, 102, "numeric",   "1",     NaT) }

RECURSIVE SeqsUpTo(_, _)
SeqsUpTo(S, n) ==
    IF n = 0 THEN {<<>>}
    ELSE LET shorter == SeqsUpTo(S, n - 1)
         IN  shorter \cup {Append(s, x) : s \in shorter, x \in S}

\* The row as pd.read_csv gives it when the location_id column is float64.
FloatLocation(row) == [row EXCEPT !.location_dtype = "float64"]

FloatRowKinds == {FloatLocation(Row(500, 101, "numeric", "1", Time(8, 0)))}

\* What pd.read_csv finds at a path: a table of rows, or nothing it can
\* parse.  The dtype of a column is the same for all the rows of a file.
Unreadable == [readable |-> FALSE, rows |-> <<>>]
Readable(rows) == [readable |-> TRUE, rows |-> rows]
FileContents ==
    {Unreadable}
    \cup {Readable(rows) : rows \in SeqsUpTo(RowKinds, MaxRows)}
    \cup {Readable(rows) : rows \in SeqsUpTo(FloatRowKinds, MaxRows) \ {<<>>}}

(***************************************************************************)
(* Items of the DynamoDB table.                                            *)
(***************************************************************************)
NoKey == <<>>

PK(source_filename) == <<"SOURCEFILE", source_filename>>
\* Mutant of SK: the sort key carries no user id.
SK_nouid(location, user_id) == <<"LOCATION", location, "USERID", 0>>

\* f"LOCATION#{row['location_id']}#USERID#{user_id}", location being the text
\* of the location id.
SK(location, user_id) == <<"LOCATION", location, "USERID", user_id>>

\* The Timestamp attribute: a string in "%Y-%m-%d %H:%M:%S" ("canonical"),
\* a string in another format ("other"), a non-string value ("number"), or
\* no attribute at all ("absent").
StoredTime(kind, s) == [kind |-> kind, sec |-> s]

\* timestamp_obj.strftime("%Y-%m-%d %H:%M:%S"): the microseconds are dropped.
Strftime(ts) == StoredTime("canonical", ts.sec)

\* Items written to the table by other means than store_predictions.
\* The user id of the n-th legacy item.  The uuids of the runs are numbered
\* from 1 on; the ids of the legacy items are not among them: they are the
\* numbers below 1, in the order of their strings.
LegacyId(n) == n - 5

LegacyItem(file, n, tkind) ==
    [PK |-> PK(file), SK |-> SK(<<100>>, LegacyId(n)), UserID |-> LegacyId(n),
     Timestamp |-> StoredTime(tkind, n), SourceFile |-> file,
     LocationID |-> 100, OriginalStressLevel |-> 900 + n,
     PredictedStressLabel |-> 1,
     SleepHours |-> 65, MoodScore |-> 30, NoiseLevelDB |-> 550]

LegacyItems ==
    {LegacyItem("legacy.csv", 1, "canonical"), LegacyItem("legacy.csv", 2, "other"),
     LegacyItem("legacy.csv", 3, "absent"),
     LegacyItem("corrupt.csv", 4, "canonical"), LegacyItem("corrupt.csv", 5, "number")}
LegacyTables == {{}, LegacyItems}

(***************************************************************************)
(* Events handed to lambda_handler.                                        *)
(*   source = "apigw"  the event has the key "httpMethod"                  *)
(*   source = "sqs"    the event has "Records" and Records[0] has          *)
(*                     eventSource "aws:sqs"                               *)
(*   source = "none"   neither: no "Records", or Records[0] is a dict      *)
(*                     without eventSource "aws:sqs"                       *)
(*   source = "raises" no "httpMethod", and "Records" is an empty list:    *)
(*                     event["Records"][0] raises IndexError               *)
(***************************************************************************)
\* queryStringParameters: None (present = FALSE) or a dict, with or without
\* the key "source_file".
NoParams == [present |-> FALSE, has_source_file |-> FALSE, source_file |-> ""]
OtherParams == [present |-> TRUE, has_source_file |-> FALSE, source_file |-> ""]
SourceFileParams(f) == [present |-> TRUE, has_source_file |-> TRUE, source_file |-> f]

ApiEvent(method, path, params) ==
    [source |-> "apigw", httpMethod |-> method, path |-> path,
     queryStringParameters |-> params, Records |-> <<>>]

\* One record of an S3 notification: with its "s3" fields or without them.
S3Record(key) == [has_s3 |-> TRUE, key |-> key]
S3NoFields == [has_s3 |-> FALSE, key |-> <<"", "">>]

\* One SQS record: its body is JSON carrying S3 records, or it is not JSON.
SqsRecord(s3_records) == [json |-> TRUE, Records |-> s3_records]
SqsMalformed == [json |-> FALSE, Records |-> <<>>]

SqsRecordKinds ==
    {SqsMalformed,
     SqsRecord(<<S3Record(<<"incoming", "a.csv">>)>>),
     SqsRecord(<<S3Record(<<"archive", "a.csv">>)>>),
     SqsRecord(<<S3NoFields, S3Record(<<"incoming", "a.csv">>)>>),
     SqsRecord(<<S3Record(<<"incoming", "a.csv">>), S3Record(<<"incoming", "b.csv">>)>>)}

SqsEvent(records) ==
    [source |-> "sqs", httpMethod |-> "", path |-> "",
     queryStringParameters |-> NoParams, Records |-> records]

OtherEvent ==
    [source |-> "none", httpMethod |-> "", path |-> "",
     queryStringParameters |-> NoParams, Records |-> <<>>]

ApiEvents ==
    {ApiEvent("GET", "/alerts", SourceFileParams(f)) : f \in QueryFiles}
    \cup {ApiEvent("GET", "/alerts", NoParams), ApiEvent("GET", "/alerts", OtherParams),
          ApiEvent("POST", "/alerts", SourceFileParams("a.csv")),
          ApiEvent("GET", "/health", NoParams)}

SqsEvents == {SqsEvent(rs) : rs \in SeqsUpTo(SqsRecordKinds, MaxSqsRecords) \ {<<>>}}

\* {"Records": []}
EmptyRecordsEvent ==
    [source |-> "raises", httpMethod |-> "", path |-> "",
     queryStringParameters |-> NoParams, Records |-> <<>>]

Events == ApiEvents \cup SqsEvents \cup {OtherEvent, EmptyRecordsEvent}

(***************************************************************************)
(* Responses.                                                              *)
(***************************************************************************)
NoResponse == [statusCode |-> 0, kind |-> "none", alerts |-> <<>>, message |-> ""]
\* lambda_handler returned nothing: the exception named went out of it.
Raised(error) == [statusCode |-> 0, kind |-> "raised", alerts |-> <<>>, message |-> error]
\* {"statusCode": c, "body": json.dumps({"error": m})}
ErrorBody(c, m) == [statusCode |-> c, kind |-> "error", alerts |-> <<>>, message |-> m]
\* {"statusCode": c, "body": m}
TextBody(c, m) == [statusCode |-> c, kind |-> "text", alerts |-> <<>>, message |-> m]
\* {"statusCode": 200, "body": json.dumps({"alerts": alerts})}
AlertsBody(alerts) == [statusCode |-> 200, kind |-> "alerts", alerts |-> alerts, message |-> ""]

(***************************************************************************)
(* State.                                                                  *)
(***************************************************************************)
VARIABLES
    RUNNING_LOCALLY,   \* config.RUNNING_LOCALLY, read once at import
    aws_clients_ok,    \* services.py: boto3 gave table and s3_client (neither is None)
    sess_ok,           \* services.py: the ONNX session was loaded (sess is not None)
    table,             \* the items of the DynamoDB table
    uuid_count,        \* number of uuid4() calls so far; the uuids are numbered as drawn
    uuid_order,        \* the uuids drawn so far, in the order of their strings
    invocations,       \* events handed to lambda_handler so far
    pc,                \* where the container is
    event,             \* the event being handled, without its SQS records
    response,          \* what lambda_handler returned last
    \* get_alerts
    pk_to_query,
    query_kwargs,      \* the ExclusiveStartKey of query_kwargs, NoKey when not set
    all_items,
    queries,           \* history: the ExclusiveStartKey of every table.query call
    pages,             \* history: every response of table.query
    \* handle_sqs_event
    sqs_records,       \* the SQS records not yet taken by the loop
    s3_records,        \* the S3 records of the current body not yet taken
    sqs_received,      \* history: len(event["Records"]) of the SQS event handled last
    sqs_handled,       \* history: per SQS record the loop has taken, "ok" or "failed"
    \* Agent
    caller,            \* "sqs" or "local": who runs the agent
    s3_key,            \* history: the object the run's file was downloaded from
    file_path,
    trace,
    emitted,           \* number of times the trace was printed
    caught,            \* str(e) of the exception Agent.run caught, NoError if none
    calls,             \* history: the stages Agent.run has called
    batch,             \* history: what pd.read_csv found
    filtered_df,
    row_idx,           \* position of the loop over rows
    predictions,
    items_inserted,
    attempted,         \* history: the rows handed to sess.run
    model_input,       \* the array handed to sess.run last
    skipped,           \* history: the rows of run_inference that raised
    put_calls,         \* history: the items handed to table.put_item
    outcomes,          \* history: per record of store_predictions, "ok", "build" or "put"
    runs,              \* number of Agent runs so far
    last_run,          \* history: what the last finished run confirmed, and for which file
    \* concurrent ingest invocations
    workers            \* per invocation: where its store_predictions is

\* all([table, s3_client, sess]) of lambda_handler.
clients_ok == aws_clients_ok /\ sess_ok

\* `import src.app` succeeds.  services.py binds input_name and label_name
\* only when the ONNX session loads; without them the import of
\* src.processing (by src.agent, by src.app) raises ImportError and neither
\* lambda_handler nor Agent exists.
Imported == sess_ok

configVars == <<RUNNING_LOCALLY, aws_clients_ok, sess_ok>>
uuidVars == <<uuid_count, uuid_order>>
queryVars == <<pk_to_query, query_kwargs, all_items, queries, pages>>
sqsVars == <<sqs_records, s3_records, sqs_received, sqs_handled>>
agentVars == <<caller, s3_key, file_path, trace, emitted, caught, calls, batch, filtered_df, row_idx,
               predictions, items_inserted, attempted, model_input, skipped, put_calls,
               outcomes>>
vars == <<RUNNING_LOCALLY, aws_clients_ok, sess_ok, table, uuid_count, uuid_order, invocations, pc, event, response,
          pk_to_query, query_kwargs, all_items, queries, pages,
          sqs_records, s3_records, sqs_received, sqs_handled,
          caller, s3_key, file_path, trace, emitted, caught, calls, batch, filtered_df,
          row_idx, predictions, items_inserted, attempted, model_input, skipped, put_calls, outcomes,
          runs, last_run, workers>>

NoPath == <<"", "">>

\* Agent.run has caught no exception.
NoError == "<none>"

\* No array has been handed to sess.run.
NoInput == <<>>

\* A DataFrame, or None.
NoneDf == [is_none |-> TRUE, rows |-> <<>>]
Df(rows) == [is_none |-> FALSE, rows |-> rows]

QueryInit ==
    /\ pk_to_query = PK("")
    /\ query_kwargs = NoKey
    /\ all_items = <<>>
    /\ queries = <<>>
    /\ pages = <<>>

SqsInit ==
    /\ sqs_records = <<>>
    /\ s3_records = <<>>
    /\ sqs_received = 0
    /\ sqs_handled = <<>>

AgentInit ==
    /\ caller = "none"
    /\ s3_key = NoPath
    /\ file_path = NoPath
    /\ trace = <<>>
    /\ emitted = 0
    /\ caught = NoError
    /\ calls = <<>>
    /\ batch = Unreadable
    /\ filtered_df = NoneDf
    /\ row_idx = 0
    /\ predictions = <<>>
    /\ items_inserted = 0
    /\ attempted = <<>>
    /\ model_input = NoInput
    /\ skipped = <<>>
    /\ put_calls = <<>>
    /\ outcomes = <<>>

\* The file a run was for, the rows it confirmed (over the threshold and
\* classified 1), whether the table held no item of that file before, and
\* the rows its put_item calls wrote, with the item written for each.
NoRun ==
    [ran |-> FALSE, source_filename |-> "", confirmed |-> <<>>, fresh |-> FALSE,
     written |-> {}]
RunOf(path, rows, fresh, written) ==
    [ran |-> TRUE, source_filename |-> Basename(path), confirmed |-> rows, fresh |-> fresh,
     written |-> written]

\* An ingest invocation in its store_predictions: the object it was started
\* for, the predictions it stores, the position of its loop, its count, the
\* items it has handed to put_item and those of them the table took.
Worker(key, rows) ==
    [s3_key |-> key, predictions |-> rows, row_idx |-> 1, items_inserted |-> 0,
     put_calls |-> <<>>, written |-> {}]
NoWorker == Worker(NoPath, <<>>)
Workers == 1..MaxWorkers

Init ==
    /\ \E value \in EnvValues : RUNNING_LOCALLY = RunningLocallyOf(value)
    /\ workers = [w \in Workers |-> NoWorker]
    /\ aws_clients_ok \in BOOLEAN
    /\ sess_ok \in BOOLEAN
    /\ table \in LegacyTables
    /\ uuid_count = 0
    /\ uuid_order = <<>>
    /\ invocations = 0
    /\ pc = "idle"
    /\ event = OtherEvent
    /\ response = NoResponse
    /\ QueryInit
    /\ SqsInit
    /\ AgentInit
    /\ runs = 0
    /\ last_run = NoRun

(***************************************************************************)
(* The table as the query sees it.                                         *)
(***************************************************************************)
KeyOf(item) == [PK |-> item.PK, SK |-> item.SK]

\* str(uuid.uuid4()): the uuid is random, and so is the place of its string
\* among the strings of the uuids drawn before it.  The orders the uuids
\* may be in once the uuid numbered user_id is drawn: it comes before any of
\* its peers, the uuids of the table that its sort key is compared with,
\* or after them all.  (Its place among the other uuids never shows, nor
\* does any place of a uuid that the table does not take: it is put last.)
Uuid4(order, user_id, peers) ==
    {SubSeq(order, 1, k) \o <<user_id>> \o SubSeq(order, k + 1, Len(order)) :
        k \in {j \in 0..Len(order) : j = Len(order) \/ order[j + 1] \in peers}}

\* Order of two user ids as strings: that of uuid_order for the uuids of the
\* runs, which are all in it.  The ids of the legacy items are none of
\* them and are ordered as numbered; they are at a location of their own
\* and are never compared with a uuid of a run.
UuidLess(x, y) ==
    LET Drawn(u) == \E i \in 1..Len(uuid_order) : uuid_order[i] = u
        Place(u) == CHOOSE i \in 1..Len(uuid_order) : uuid_order[i] = u
    IN  IF Drawn(x) /\ Drawn(y) THEN Place(x) < Place(y) ELSE x < y

\* Order of the sort key "LOCATION#<location_id>#USERID#<user_id>": by the
\* text of the location ("101#" sorts before "101.0#"), then by the user id.
SKLess(a, b) ==
    \/ a[2][1] < b[2][1]
    \/ a[2][1] = b[2][1] /\ Len(a[2]) < Len(b[2])
    \/ a[2] = b[2] /\ UuidLess(a[4], b[4])

RECURSIVE SortBySK(_)
SortBySK(items) ==
    IF items = {} THEN <<>>
    ELSE LET first == CHOOSE x \in items : \A y \in items \ {x} : SKLess(x.SK, y.SK)
         IN  <<first>> \o SortBySK(items \ {first})

\* KeyConditionExpression=Key("PK").eq(pk), in sort-key order.
Partition(tbl, pk) == SortBySK({item \in tbl : item.PK = pk})

\* The items of a sorted partition that come after ExclusiveStartKey.
AfterKey(sorted, start_key) ==
    IF start_key = NoKey THEN sorted
    ELSE SelectSeq(sorted, LAMBDA item : SKLess(start_key.SK, item.SK))

\* The responses table.query may give: a page of at most MaxPageLen of the
\* items that remain, with LastEvaluatedKey when items remain after it; a
\* page that ends exactly at the last item may carry LastEvaluatedKey too,
\* and is then followed by an empty page without one.
Page(items, last_evaluated_key) == [Items |-> items, LastEvaluatedKey |-> last_evaluated_key]

QueryResponses(tbl, pk, start_key) ==
    LET rest == AfterKey(Partition(tbl, pk), start_key)
        n_max == IF Len(rest) < MaxPageLen THEN Len(rest) ELSE MaxPageLen
    IN  {Page(SubSeq(rest, 1, n), KeyOf(rest[n])) : n \in 1..n_max}
        \cup (IF Len(rest) <= MaxPageLen THEN {Page(rest, NoKey)} ELSE {})

(***************************************************************************)
(* get_alerts, src/src/app.py                                              *)
(***************************************************************************)
\* query_params = event.get("queryStringParameters") or {}
QueryParams(e) ==
    IF e.queryStringParameters.present THEN e.queryStringParameters ELSE OtherParams

\* Mutant of MissingSourceFile: the parameter is never checked.
MissingSourceFile_never(query_params) == FALSE

\* "source_file" not in query_params
MissingSourceFile(query_params) == ~query_params.has_source_file

\* Mutant of LastPage: the loop never ends.
LastPage_never(last_evaluated_key) == FALSE

\* Mutant of LastPage: the loop ends after the first page.
LastPage_always(last_evaluated_key) == TRUE

\* if not last_evaluated_key: break
LastPage(last_evaluated_key) == last_evaluated_key = NoKey

\* The timestamp of an alert: null, or dt_object.isoformat() + "Z".
NullTime == [kind |-> "null", sec |-> 0]
IsoTime(s) == [kind |-> "iso", sec |-> s]

\* datetime.strptime(item["Timestamp"], "%Y-%m-%d %H:%M:%S") raises KeyError
\* without the attribute and ValueError on a string in another format, both
\* caught; on a value that is not a string it raises TypeError, not caught.
TimestampRaisesUncaught(item) == item.Timestamp.kind = "number"

IsoTimestamp(item) ==
    IF item.Timestamp.kind = "canonical" THEN IsoTime(item.Timestamp.sec) ELSE NullTime

\* int(item.get("OriginalStressLevel", 0)): the fraction is cut off.
StressScore(item) == item.OriginalStressLevel \div 10

Alert(item) ==
    [record_id |-> item.SourceFile,
     stress_score |-> StressScore(item),
     timestamp |-> IsoTimestamp(item)]

\* Mutant of QueryFailed: the items fetched so far are returned with the error.
QueryFailed_partial(items) ==
    [statusCode |-> 500, kind |-> "error",
     alerts |-> [i \in 1..Len(items) |-> Alert(items[i])],
     message |-> "Could not retrieve alerts."]

\* The except branch of get_alerts.
QueryFailed(items) == ErrorBody(500, "Could not retrieve alerts.")

\* The loop over all_items and the return that follows it.
Transform(items) ==
    IF \E i \in 1..Len(items) : TimestampRaisesUncaught(items[i])
    THEN QueryFailed(items)
    ELSE AlertsBody([i \in 1..Len(items) |-> Alert(items[i])])

\* No SQS event is being handled and the history of the last one is dropped.
DropSqs ==
    /\ sqs_received' = 0
    /\ sqs_handled' = <<>>
    /\ UNCHANGED <<sqs_records, s3_records>>

\* No query is in progress and the history of the last one is dropped.
DropQuery ==
    /\ pk_to_query' = PK("")
    /\ query_kwargs' = NoKey
    /\ all_items' = <<>>
    /\ queries' = <<>>
    /\ pages' = <<>>

\* get_alerts returns 400 before it touches the table.
GetAlertsMissingParam(e) ==
    /\ MissingSourceFile(QueryParams(e))
    /\ response' = ErrorBody(400, "The 'source_file' query parameter is required.")
    /\ pc' = "idle"
    /\ DropQuery

\* get_alerts up to the first table.query.
GetAlertsBegin(e) ==
    /\ ~MissingSourceFile(QueryParams(e))
    /\ pk_to_query' = PK(QueryParams(e).source_file)
    /\ query_kwargs' = NoKey
    /\ all_items' = <<>>
    /\ queries' = <<>>
    /\ pages' = <<>>
    /\ response' = NoResponse
    /\ pc' = "ga_query"

\* One turn of the while loop in which table.query answers; after the last
\* page the items are transformed and the response is returned.
GetAlertsQuery ==
    /\ pc = "ga_query"
    /\ \E resp \in QueryResponses(table, pk_to_query, query_kwargs) :
         /\ queries' = Append(queries, query_kwargs)
         /\ pages' = Append(pages, resp)
         /\ all_items' = all_items \o resp.Items
         /\ IF LastPage(resp.LastEvaluatedKey)
            THEN /\ response' = Transform(all_items')
                 /\ pc' = "idle"
                 /\ UNCHANGED query_kwargs
            ELSE /\ query_kwargs' = resp.LastEvaluatedKey
                 /\ UNCHANGED <<response, pc>>
    /\ UNCHANGED <<configVars, workers, runs, last_run, table, uuidVars, invocations, event, pk_to_query,
                   sqsVars, agentVars>>

\* One turn of the while loop in which table.query raises.
GetAlertsQueryRaises ==
    /\ pc = "ga_query"
    /\ queries' = Append(queries, query_kwargs)
    /\ response' = QueryFailed(all_items)
    /\ pc' = "idle"
    /\ UNCHANGED <<configVars, workers, runs, last_run, table, uuidVars, invocations, event, pk_to_query,
                   query_kwargs, all_items, pages, sqsVars, agentVars>>

(***************************************************************************)
(* lambda_handler, src/src/app.py                                          *)
(***************************************************************************)
Invoke(e) ==
    /\ Imported
    /\ pc = "idle"
    /\ invocations < MaxInvocations
    /\ invocations' = invocations + 1
    /\ event' = [e EXCEPT !.Records = <<>>]

\* if not all([table, s3_client, sess])
HandlerClientsMissing ==
    \E e \in Events :
        /\ Invoke(e)
        /\ ~clients_ok
        /\ response' = TextBody(500, "A required client (DynamoDB, S3, or ONNX) failed to initialize.")
        /\ pc' = "idle"
        /\ DropQuery
        /\ DropSqs
        /\ UNCHANGED <<configVars, workers, runs, last_run, table, uuidVars, agentVars>>

IsGetAlerts(e) == e.source = "apigw" /\ e.path = "/alerts" /\ e.httpMethod = "GET"

HandlerGetAlerts ==
    \E e \in Events :
        /\ Invoke(e)
        /\ clients_ok
        /\ IsGetAlerts(e)
        /\ GetAlertsMissingParam(e) \/ GetAlertsBegin(e)
        /\ DropSqs
        /\ UNCHANGED <<configVars, workers, runs, last_run, table, uuidVars, agentVars>>

HandlerNotFound ==
    \E e \in Events :
        /\ Invoke(e)
        /\ clients_ok
        /\ e.source = "apigw"
        /\ ~IsGetAlerts(e)
        /\ response' = ErrorBody(404, "Not Found")
        /\ pc' = "idle"
        /\ DropQuery
        /\ DropSqs
        /\ UNCHANGED <<configVars, workers, runs, last_run, table, uuidVars, agentVars>>

(***************************************************************************)
(* Agent, src/src/agent.py                                                 *)
(***************************************************************************)
\* Mutant of Log: the entry replaces the trace.
Log_overwrite(tr, message, data) == <<[message |-> message, data |-> data]>>

\* Agent._log
Log(tr, message, data) == Append(tr, [message |-> message, data |-> data])

NoData == <<>>

\* Agent(): the state of a fresh agent running file `path` for `who`.
NewAgent(who, key, path) ==
    /\ caller' = who
    /\ s3_key' = key
    /\ file_path' = path
    /\ trace' = <<>>
    /\ emitted' = 0
    /\ caught' = NoError
    /\ calls' = <<>>
    /\ batch' = Unreadable
    /\ filtered_df' = NoneDf
    /\ row_idx' = 0
    /\ predictions' = <<>>
    /\ items_inserted' = 0
    /\ attempted' = <<>>
    /\ model_input' = NoInput
    /\ skipped' = <<>>
    /\ put_calls' = <<>>
    /\ outcomes' = <<>>
    /\ last_run' = NoRun

\* The agent is dropped.
DropAgent ==
    /\ caller' = "none"
    /\ s3_key' = NoPath
    /\ file_path' = NoPath
    /\ trace' = <<>>
    /\ emitted' = 0
    /\ caught' = NoError
    /\ calls' = <<>>
    /\ batch' = Unreadable
    /\ filtered_df' = NoneDf
    /\ row_idx' = 0
    /\ predictions' = <<>>
    /\ items_inserted' = 0
    /\ attempted' = <<>>
    /\ model_input' = NoInput
    /\ skipped' = <<>>
    /\ put_calls' = <<>>
    /\ outcomes' = <<>>

\* No item of the file is in the table but those this run has put.
FreshPartition ==
    \A item \in table :
        item.PK = PK(Basename(file_path)) => \E i \in 1..Len(put_calls) : put_calls[i] = item

\* The put_item calls of this run that did not raise, each as the row and
\* the item written for it: the k-th call was made for the k-th record that
\* was built.
Written ==
    LET results == SelectSeq(outcomes, LAMBDA outcome : outcome # "build")
        rows == SelectSeq(predictions, LAMBDA row : row.timestamp.kind # "NaT")
    IN  {[row |-> rows[k], item |-> put_calls[k]] :
            k \in {j \in 1..Len(put_calls) : results[j] = "ok"}}

\* The finally block of Agent.run: the last entry, then the trace is printed.
Finish(tr) ==
    /\ trace' = Log(tr, "Agent run finished.", NoData)
    /\ emitted' = emitted + 1
    /\ last_run' = RunOf(file_path, predictions, FreshPartition, Written)
    /\ pc' = "run_done"

\* Agent.run up to the call of load_and_filter_data.
AgentRunStart ==
    /\ pc = "run_start"
    /\ trace' = Log(Log(trace, "Agent run started.", [file_path |-> file_path]),
                    "Initiating action: Load and filter data.", NoData)
    /\ pc' = "run_load"
    /\ UNCHANGED <<configVars, workers, caught, runs, last_run, table, uuidVars, invocations, event, response, queryVars,
                   sqsVars, caller, s3_key, file_path, emitted, calls, batch, filtered_df,
                   row_idx, predictions, items_inserted, attempted, model_input, skipped,
                   put_calls,
                   outcomes>>

(***************************************************************************)
(* load_and_filter_data, src/src/processing.py                             *)
(***************************************************************************)
\* Mutant of ExceedsThreshold: a row at the threshold passes.
ExceedsThreshold_ge(row) == row.stress_level >= Tenths(STRESS_THRESHOLD)

\* df["stress_level"] > STRESS_THRESHOLD, for one row
ExceedsThreshold(row) == row.stress_level > Tenths(STRESS_THRESHOLD)

\* Mutant of LoadAndFilter: the rows are not filtered.
LoadAndFilter_all(content) ==
    IF ~content.readable THEN NoneDf ELSE Df(content.rows)

\* load_and_filter_data, on what pd.read_csv finds.
LoadAndFilter(content) ==
    IF ~content.readable THEN NoneDf
    ELSE Df(SelectSeq(content.rows, ExceedsThreshold))

\* Mutant of AfterLoad: None is not checked for.
AfterLoad_unchecked(df) == IF df.rows = <<>> THEN "empty" ELSE "infer"

\* Mutant of AfterLoad: an empty result is taken for a load failure.
AfterLoad_emptyfails(df) == IF df.is_none \/ df.rows = <<>> THEN "load_failed" ELSE "infer"

\* What Agent.run does with the result of load_and_filter_data.
AfterLoad(df) ==
    IF df.is_none THEN "load_failed"
    ELSE IF df.rows = <<>> THEN "empty"
    ELSE "infer"

\* The call of load_and_filter_data and the branch Agent.run takes on its result.
AgentLoad ==
    /\ pc = "run_load"
    /\ \E content \in FileContents :
         LET df == LoadAndFilter(content)
         IN  /\ batch' = content
             /\ filtered_df' = df
             /\ calls' = IF AfterLoad(df) = "infer"
                         THEN calls \o <<"load_and_filter_data", "run_inference">>
                         ELSE calls \o <<"load_and_filter_data">>
             /\ CASE AfterLoad(df) = "load_failed" ->
                       /\ Finish(Log(trace, "Observation: Data loading failed. Halting run.", NoData))
                       /\ UNCHANGED row_idx
                  [] AfterLoad(df) = "empty" ->
                       /\ Finish(Log(trace, "Observation: No potential high-stress users found after filtering. Halting run.", NoData))
                       /\ UNCHANGED row_idx
                  [] OTHER ->
                       /\ trace' = Log(Log(trace, "Observation: Data loaded and filtered successfully.",
                                           [potential_records |-> Len(df.rows)]),
                                       "Initiating action: Run model inference.", NoData)
                       /\ row_idx' = 1
                       /\ pc' = "run_infer"
                       /\ UNCHANGED <<emitted, last_run>>
    /\ UNCHANGED <<configVars, workers, caught, runs, table, uuidVars, invocations, event, response, queryVars,
                   sqsVars, caller, s3_key, file_path, predictions, items_inserted,
                   attempted, model_input, skipped, put_calls, outcomes>>

(***************************************************************************)
(* run_inference, src/src/processing.py                                    *)
(***************************************************************************)
\* A one-row DataFrame is the sequence of its cells, each a column and its
\* value.
Cell(column, value) == [column |-> column, value |-> value]

\* single_row_df[NUMERICAL_FEATURES]
NumericalCells(row) ==
    [i \in 1..Len(NUMERICAL_FEATURES) |->
        Cell(NUMERICAL_FEATURES[i], row[NUMERICAL_FEATURES[i][1]])]

\* pd.get_dummies(single_row_df["location_id"], prefix="location_id", dtype=float):
\* one column, named f"location_id_{value}" after the value of the row,
\* holding 1.0.
LocationDummies(row) ==
    <<Cell(Column("location_id", Str(row.location_id, row.location_dtype)), 1)>>

\* pd.concat([single_row_df[NUMERICAL_FEATURES], location_dummies], axis=1)
ProcessedRow(row) == NumericalCells(row) \o LocationDummies(row)

\* processed_row.reindex(columns=columns, fill_value=fill_value): one value
\* per column asked for, in that order; a column the row lacks gets
\* fill_value and a column not asked for is dropped.
Reindex(cells, columns, fill_value) ==
    [i \in 1..Len(columns) |->
        IF \E j \in 1..Len(cells) : cells[j].column = columns[i]
        THEN cells[CHOOSE j \in 1..Len(cells) : cells[j].column = columns[i]].value
        ELSE fill_value]

\* final_input.to_numpy().astype(np.float32), as the values of its one row.
ModelInput(row) == Reindex(ProcessedRow(row), TRAINING_COLUMNS, 0)

\* final_input.to_numpy().astype(np.float32) raises on a cell that is not a number.
FeaturizeRaises(row) == row.features = "malformed"

\* sess.run([label_name], {input_name: model_input}) raises.
ClassifierRaises(row) == row.label = "raise"

\* Mutant of PredictedHighStress: every classified row is taken.
PredictedHighStress_any(row) == TRUE

\* prediction_result == 1
PredictedHighStress(row) == row.label = "1"

\* Mutant of AfterRowError: a row that raises ends the loop.
AfterRowError_abort(i, n) == n + 1

\* The row the loop takes after row i of n raised: `continue`.
AfterRowError(i, n) == i + 1

\* One turn of the loop of run_inference.
InferRow ==
    /\ pc = "run_infer"
    /\ row_idx <= Len(filtered_df.rows)
    /\ LET row == filtered_df.rows[row_idx]
           n == Len(filtered_df.rows)
       IN  IF FeaturizeRaises(row)
           THEN /\ skipped' = Append(skipped, row)
                /\ row_idx' = AfterRowError(row_idx, n)
                /\ UNCHANGED <<attempted, model_input, predictions>>
           ELSE /\ model_input' = ModelInput(row)
                /\ attempted' = Append(attempted, row)
                /\ IF ClassifierRaises(row)
                   THEN /\ skipped' = Append(skipped, row)
                        /\ row_idx' = AfterRowError(row_idx, n)
                        /\ UNCHANGED predictions
                   ELSE /\ predictions' = IF PredictedHighStress(row)
                                          THEN Append(predictions, row)
                                          ELSE predictions
                        /\ row_idx' = row_idx + 1
                        /\ UNCHANGED skipped
    /\ UNCHANGED <<configVars, workers, caught, runs, last_run, table, uuidVars, invocations, pc, event, response, queryVars,
                   sqsVars, caller, s3_key, file_path, trace, emitted, calls, batch,
                   filtered_df, items_inserted, put_calls, outcomes>>

\* run_inference returns; Agent.run logs the count and stores or finishes.
InferDone ==
    /\ pc = "run_infer"
    /\ row_idx > Len(filtered_df.rows)
    /\ LET tr == Log(trace, "Observation: Model inference complete.",
                     [high_stress_predictions |-> Len(predictions)])
       IN  IF predictions # <<>>
           THEN /\ trace' = Log(tr, "Initiating action: Store predictions in DynamoDB.", NoData)
                /\ calls' = Append(calls, "store_predictions")
                /\ row_idx' = 1
                /\ pc' = "run_store"
                /\ UNCHANGED <<emitted, last_run>>
           ELSE /\ Finish(Log(tr, "Observation: No high-stress predictions to store.", NoData))
                /\ UNCHANGED <<calls, row_idx>>
    /\ UNCHANGED <<configVars, workers, caught, runs, table, uuidVars, invocations, event, response, queryVars,
                   sqsVars, caller, s3_key, file_path, batch, filtered_df, predictions,
                   items_inserted, attempted, model_input, skipped, put_calls, outcomes>>

(***************************************************************************)
(* store_predictions, src/src/processing.py                                *)
(***************************************************************************)
\* pd.to_datetime(row["timestamp"]).strftime(...) raises on NaT.
BuildRaises(row) == row.timestamp.kind = "NaT"

\* The item built for a row.
Item(row, source_filename, user_id) ==
    [PK |-> PK(source_filename),
     SK |-> SK(Str(row.location_id, row.location_dtype), user_id),
     UserID |-> user_id,
     Timestamp |-> Strftime(row.timestamp),
     SourceFile |-> source_filename,
     LocationID |-> row.location_id,
     OriginalStressLevel |-> row.stress_level,
     PredictedStressLabel |-> 1,
     SleepHours |-> row.sleep_hours,
     MoodScore |-> row.mood_score,
     NoiseLevelDB |-> row.noise_level_db]

\* The uuids of the items of the table that the sort key of the item is
\* compared with when it is written: those of its partition and location.
Peers(tbl, item) == {other.UserID : other \in {it \in tbl : it.PK = item.PK /\ it.SK[2] = item.SK[2]}}

\* if not RUNNING_LOCALLY: table.put_item(Item=item)
WritesToTable(running_locally) == ~Truthy(running_locally)

\* Mutant of PutItem: the item replaces the items of its partition.
PutItem_partition(tbl, item) == {x \in tbl : x.PK # item.PK} \cup {item}

\* table.put_item: the item replaces the one with the same key, if any.
PutItem(tbl, item) == {x \in tbl : KeyOf(x) # KeyOf(item)} \cup {item}

\* items_inserted after a record: `items_inserted += 1` is skipped when the
\* record raised.
CountAfter(count, raised) == IF raised THEN count ELSE count + 1

\* Mutant of AfterRecordError: a record that raises ends the loop.
AfterRecordError_abort(i, n) == n + 1

\* The record the loop takes after record i of n raised: `continue`.
AfterRecordError(i, n) == i + 1

\* One turn of the loop of store_predictions.
StoreRow ==
    /\ pc = "run_store"
    /\ row_idx <= Len(predictions)
    /\ LET row == predictions[row_idx]
           n == Len(predictions)
           user_id == uuid_count + 1
           item == Item(row, Basename(file_path), user_id)
       IN  /\ uuid_count' = user_id
           /\ IF BuildRaises(row)
              THEN /\ uuid_order' \in Uuid4(uuid_order, user_id, {})
                   /\ outcomes' = Append(outcomes, "build")
                   /\ items_inserted' = CountAfter(items_inserted, TRUE)
                   /\ row_idx' = AfterRecordError(row_idx, n)
                   /\ UNCHANGED <<table, put_calls>>
              ELSE IF WritesToTable(RUNNING_LOCALLY)
              THEN IF aws_clients_ok
                   THEN /\ put_calls' = Append(put_calls, item)
                        /\ \/ /\ uuid_order' \in Uuid4(uuid_order, user_id, Peers(table, item))
                              /\ table' = PutItem(table, item)
                              /\ outcomes' = Append(outcomes, "ok")
                              /\ items_inserted' = CountAfter(items_inserted, FALSE)
                              /\ row_idx' = row_idx + 1
                           \/ /\ uuid_order' \in Uuid4(uuid_order, user_id, {})
                              /\ outcomes' = Append(outcomes, "put")
                              /\ items_inserted' = CountAfter(items_inserted, TRUE)
                              /\ row_idx' = AfterRecordError(row_idx, n)
                              /\ UNCHANGED table
                   \* table is None: table.put_item raises AttributeError
                   \* before any item is handed over.
                   ELSE /\ uuid_order' \in Uuid4(uuid_order, user_id, {})
                        /\ outcomes' = Append(outcomes, "put")
                        /\ items_inserted' = CountAfter(items_inserted, TRUE)
                        /\ row_idx' = AfterRecordError(row_idx, n)
                        /\ UNCHANGED <<table, put_calls>>
              ELSE /\ uuid_order' \in Uuid4(uuid_order, user_id, {})
                   /\ outcomes' = Append(outcomes, "ok")
                   /\ items_inserted' = CountAfter(items_inserted, FALSE)
                   /\ row_idx' = row_idx + 1
                   /\ UNCHANGED <<table, put_calls>>
    /\ UNCHANGED <<configVars, workers, caught, runs, last_run, invocations, pc, event, response, queryVars, sqsVars,
                   caller, s3_key, file_path, trace, emitted, calls, batch, filtered_df,
                   predictions, attempted, model_input, skipped>>

\* store_predictions returns; Agent.run logs the count and finishes.
StoreDone ==
    /\ pc = "run_store"
    /\ row_idx > Len(predictions)
    /\ Finish(Log(trace, "Observation: Storage complete.", [items_inserted |-> items_inserted]))
    /\ UNCHANGED <<configVars, workers, caught, runs, table, uuidVars, invocations, event, response, queryVars,
                   sqsVars, caller, s3_key, file_path, calls, batch, filtered_df, row_idx,
                   predictions, items_inserted, attempted, model_input, skipped, put_calls,
                   outcomes>>

(***************************************************************************)
(* handle_sqs_event and the rest of lambda_handler, src/src/app.py         *)
(***************************************************************************)
\* The SQS branch of lambda_handler: handle_sqs_event starts its loop.
HandlerSqs ==
    \E e \in Events :
        /\ Invoke(e)
        /\ clients_ok
        /\ e.source = "sqs"
        /\ sqs_records' = e.Records
        /\ s3_records' = <<>>
        /\ sqs_received' = Len(e.Records)
        /\ sqs_handled' = <<>>
        /\ response' = NoResponse
        /\ pc' = "sqs_loop"
        /\ DropQuery
        /\ UNCHANGED <<configVars, workers, runs, last_run, table, uuidVars, agentVars>>

\* Mutant of AfterSqsRecordError: the loop over the SQS records ends.
AfterSqsRecordError_abort(rest) == <<>>

\* except Exception ... continue: the SQS records the loop goes on with
\* after one raised, `rest` being those that come after it.
AfterSqsRecordError(rest) == rest

\* The loop takes an SQS record whose body is JSON.
SqsTakeRecord ==
    /\ pc = "sqs_loop"
    /\ sqs_records # <<>>
    /\ Head(sqs_records).json
    /\ s3_records' = Head(sqs_records).Records
    /\ sqs_records' = Tail(sqs_records)
    /\ sqs_handled' = Append(sqs_handled, "ok")
    /\ pc' = "s3_loop"
    /\ UNCHANGED <<configVars, workers, runs, last_run, table, uuidVars, invocations, event, response, queryVars,
                   sqs_received, agentVars>>

\* json.loads raises on the body: the record is logged and skipped.
SqsRecordMalformed ==
    /\ pc = "sqs_loop"
    /\ sqs_records # <<>>
    /\ ~Head(sqs_records).json
    /\ sqs_records' = AfterSqsRecordError(Tail(sqs_records))
    /\ sqs_handled' = Append(sqs_handled, "failed")
    /\ UNCHANGED <<configVars, workers, runs, last_run, table, uuidVars, invocations, pc, event, response,
                   queryVars, s3_records, sqs_received, agentVars>>

\* handle_sqs_event returns and lambda_handler answers 200.
SqsReturn ==
    /\ pc = "sqs_loop"
    /\ sqs_records = <<>>
    /\ response' = TextBody(200, "Processing complete.")
    /\ pc' = "idle"
    /\ UNCHANGED <<configVars, workers, runs, last_run, table, uuidVars, invocations, event, queryVars, sqsVars,
                   agentVars>>

\* The inner loop has taken every S3 record of the body.
S3BodyDone ==
    /\ pc = "s3_loop"
    /\ s3_records = <<>>
    /\ pc' = "sqs_loop"
    /\ UNCHANGED <<configVars, workers, runs, last_run, table, uuidVars, invocations, event, response, queryVars,
                   sqsVars, agentVars>>

\* s3_record["s3"] raises KeyError, or download_file raises: the except of
\* the outer loop abandons the rest of the body and the loop goes on with
\* the next SQS record.
S3RecordFails ==
    /\ pc = "s3_loop"
    /\ s3_records # <<>>
    /\ s3_records' = <<>>
    /\ sqs_records' = AfterSqsRecordError(sqs_records)
    /\ sqs_handled' = [sqs_handled EXCEPT ![Len(sqs_handled)] = "failed"]
    /\ pc' = "sqs_loop"
    /\ UNCHANGED <<configVars, workers, runs, last_run, table, uuidVars, invocations, event, response, queryVars,
                   sqs_received, agentVars>>

\* The file is downloaded and a fresh Agent is about to run it.
S3DownloadAndRun ==
    /\ pc = "s3_loop"
    /\ s3_records # <<>>
    /\ Head(s3_records).has_s3
    /\ runs < MaxRuns
    /\ runs' = runs + 1
    /\ s3_records' = Tail(s3_records)
    /\ NewAgent("sqs", Head(s3_records).key, DownloadPath(Head(s3_records).key))
    /\ pc' = "run_start"
    /\ UNCHANGED <<configVars, workers, table, uuidVars, invocations, event, response, queryVars,
                   sqs_records, sqs_received, sqs_handled>>

\* event["Records"][0] of the test for an SQS event raises IndexError, which
\* nothing catches: lambda_handler returns no response and runs no Agent.
HandlerRaises ==
    \E e \in Events :
        /\ Invoke(e)
        /\ clients_ok
        /\ e.source = "raises"
        /\ response' = Raised("IndexError")
        /\ pc' = "idle"
        /\ DropQuery
        /\ DropSqs
        /\ UNCHANGED <<configVars, workers, runs, last_run, table, uuidVars, agentVars>>

\* if RUNNING_LOCALLY: a fresh Agent is about to run the local file.
HandlerLocal ==
    \E e \in Events :
        /\ Invoke(e)
        /\ clients_ok
        /\ e.source = "none"
        /\ Truthy(RUNNING_LOCALLY)
        /\ runs < MaxRuns
        /\ runs' = runs + 1
        /\ NewAgent("local", NoPath, LOCAL_CSV_FILE_NAME)
        /\ response' = NoResponse
        /\ pc' = "run_start"
        /\ DropQuery
        /\ DropSqs
        /\ UNCHANGED <<configVars, workers, table, uuidVars>>

\* The last return of lambda_handler.
HandlerUnrecognized ==
    \E e \in Events :
        /\ Invoke(e)
        /\ clients_ok
        /\ e.source = "none"
        /\ ~Truthy(RUNNING_LOCALLY)
        /\ response' = TextBody(400, "Unrecognized event source.")
        /\ pc' = "idle"
        /\ DropQuery
        /\ DropSqs
        /\ UNCHANGED <<configVars, workers, runs, last_run, table, uuidVars, agentVars>>

\* Agent.run returns to the loop of handle_sqs_event or to lambda_handler.
AgentReturn ==
    /\ pc = "run_done"
    /\ IF caller = "sqs"
       THEN /\ pc' = "s3_loop"
            /\ UNCHANGED response
       ELSE /\ pc' = "idle"
            /\ response' = TextBody(200, "Local processing complete.")
    /\ DropAgent
    /\ UNCHANGED <<configVars, workers, runs, last_run, table, uuidVars, invocations, event, queryVars,
                   sqsVars>>

\* Mutant of OnException: the except branch logs nothing.
OnException_silent(tr, error) == tr

\* The except branch of Agent.run: the text of the exception is logged.
OnException(tr, error) ==
    Log(tr, "An unexpected error occurred during the run.", [error |-> error])

\* str(e) of the exceptions a stage may let out.
ErrorTexts == {"stage failed"}

\* The stage Agent.run has called raises an exception instead of returning:
\* the except branch logs it and the finally block ends the run.  (The three
\* stages of processing.py catch every Exception of their own bodies, so
\* this happens only to an Agent whose stage lets one out.)
StageRaises ==
    /\ pc \in {"run_load", "run_infer", "run_store"}
    /\ \E error \in ErrorTexts :
         /\ caught' = error
         /\ Finish(OnException(trace, error))
    /\ calls' = IF pc = "run_load" THEN Append(calls, "load_and_filter_data") ELSE calls
    /\ UNCHANGED <<configVars, workers, runs, table, uuidVars, invocations, event, response,
                   queryVars, sqsVars, caller, s3_key, file_path, batch, filtered_df, row_idx,
                   predictions, items_inserted, attempted, model_input, skipped, put_calls,
                   outcomes>>

\* The paths an Agent is run for.
RunPaths == {LOCAL_CSV_FILE_NAME} \cup {DownloadPath(key) : key \in S3Keys}

\* agent = Agent(); agent.run(file_path=path), outside of lambda_handler.
RunBegin ==
    /\ Imported
    /\ pc = "idle"
    /\ runs < MaxRuns
    /\ runs' = runs + 1
    /\ \E path \in RunPaths : NewAgent("direct", NoPath, path)
    /\ pc' = "run_start"
    /\ UNCHANGED <<configVars, workers, table, uuidVars, invocations, event, response,
                   queryVars, sqsVars>>

\* Agent.run returns to the code that called it directly.
RunReturn ==
    /\ pc = "run_done"
    /\ caller = "direct"
    /\ pc' = "idle"
    /\ DropAgent
    /\ UNCHANGED <<configVars, workers, runs, last_run, table, uuidVars, invocations, event,
                   response, queryVars, sqsVars>>

(***************************************************************************)
(* Ingest invocations that run at the same time, each in a container of    *)
(* its own: the table is all they share.  Each is taken in its             *)
(* store_predictions, one turn of the loop at a time; put_item is one      *)
(* step of the table.                                                      *)
(***************************************************************************)
\* The rows run_inference returns: over the threshold and classified 1,
\* as row.to_dict() of a file whose location_id column is int64 or float64.
ConfirmedRows ==
    {row \in RowKinds \cup FloatRowKinds : /\ ExceedsThreshold(row)
                                           /\ ~FeaturizeRaises(row)
                                           /\ ~ClassifierRaises(row)
                                           /\ PredictedHighStress(row)}

\* One turn of the loop of store_predictions in invocation w.  uuid4() is
\* unique over all invocations: its uuid is numbered uuid_count + 1.
ConcurrentStoreRow(w) ==
    /\ workers[w].row_idx <= Len(workers[w].predictions)
    /\ LET me == workers[w]
           row == me.predictions[me.row_idx]
           n == Len(me.predictions)
           user_id == uuid_count + 1
           item == Item(row, Basename(DownloadPath(me.s3_key)), user_id)
           raised == [me EXCEPT !.row_idx = AfterRecordError(me.row_idx, n),
                                !.items_inserted = CountAfter(me.items_inserted, TRUE)]
           passed == [me EXCEPT !.row_idx = me.row_idx + 1,
                                !.items_inserted = CountAfter(me.items_inserted, FALSE)]
       IN  /\ uuid_count' = user_id
           /\ IF BuildRaises(row)
              THEN /\ uuid_order' \in Uuid4(uuid_order, user_id, {})
                   /\ workers' = [workers EXCEPT ![w] = raised]
                   /\ UNCHANGED table
              ELSE IF WritesToTable(RUNNING_LOCALLY)
              THEN \/ /\ uuid_order' \in Uuid4(uuid_order, user_id, Peers(table, item))
                      /\ table' = PutItem(table, item)
                      /\ workers' = [workers EXCEPT ![w] =
                                        [passed EXCEPT !.put_calls = Append(me.put_calls, item),
                                                       !.written = me.written \cup {item}]]
                   \/ /\ uuid_order' \in Uuid4(uuid_order, user_id, {})
                      /\ workers' = [workers EXCEPT ![w] =
                                        [raised EXCEPT !.put_calls = Append(me.put_calls, item)]]
                      /\ UNCHANGED table
              ELSE /\ uuid_order' \in Uuid4(uuid_order, user_id, {})
                   /\ workers' = [workers EXCEPT ![w] = passed]
                   /\ UNCHANGED table
    /\ UNCHANGED <<configVars, invocations, pc, event, response, queryVars, sqsVars, agentVars,
                   runs, last_run>>

Next ==
    \/ HandlerClientsMissing
    \/ HandlerGetAlerts
    \/ HandlerNotFound
    \/ HandlerSqs
    \/ HandlerRaises
    \/ HandlerLocal
    \/ HandlerUnrecognized
    \/ GetAlertsQuery
    \/ GetAlertsQueryRaises
    \/ SqsTakeRecord
    \/ SqsRecordMalformed
    \/ SqsReturn
    \/ S3BodyDone
    \/ S3RecordFails
    \/ S3DownloadAndRun
    \/ AgentRunStart
    \/ AgentLoad
    \/ InferRow
    \/ InferDone
    \/ StoreRow
    \/ StoreDone
    \/ AgentReturn

Spec == Init /\ [][Next]_vars

(***************************************************************************)
(* An Agent run directly, with stages that may raise.                      *)
(***************************************************************************)
NextRun ==
    \/ RunBegin
    \/ AgentRunStart
    \/ AgentLoad
    \/ InferRow
    \/ InferDone
    \/ StoreRow
    \/ StoreDone
    \/ StageRaises
    \/ RunReturn

SpecRun == Init /\ [][NextRun]_vars

\* The statements of Agent.run and of the stages are executed one after the
\* other: a run that can take a step takes it.
RunStep ==
    AgentRunStart \/ AgentLoad \/ InferRow \/ InferDone \/ StoreRow \/ StoreDone \/ StageRaises

SpecRunFair == SpecRun /\ WF_vars(RunStep)

(***************************************************************************)
(* MaxWorkers ingest invocations, each started for an S3 object and        *)
(* storing the predictions of its file, interleaved in every way.  The     *)
(* rows of one file have the location_id column in one dtype.              *)
(***************************************************************************)
InitConcurrent ==
    /\ \E value \in EnvValues : RUNNING_LOCALLY = RunningLocallyOf(value)
    /\ workers \in [Workers -> {Worker(key, rows) :
                                   key \in S3Keys,
                                   rows \in {list \in SeqsUpTo(ConfirmedRows, MaxRows) \ {<<>>} :
                                                \A i, j \in 1..Len(list) :
                                                   list[i].location_dtype = list[j].location_dtype}}]
    /\ aws_clients_ok = TRUE
    /\ sess_ok = TRUE
    /\ table \in LegacyTables
    /\ uuid_count = 0
    /\ uuid_order = <<>>
    /\ invocations = 0
    /\ pc = "idle"
    /\ event = OtherEvent
    /\ response = NoResponse
    /\ QueryInit
    /\ SqsInit
    /\ AgentInit
    /\ runs = 0
    /\ last_run = NoRun

NextConcurrent == \E w \in Workers : ConcurrentStoreRow(w)

SpecConcurrent == InitConcurrent /\ [][NextConcurrent]_vars

(***************************************************************************)
(* The container serving GET /alerts requests only.                        *)
(***************************************************************************)
NextQuery ==
    \/ HandlerGetAlerts
    \/ GetAlertsQuery
    \/ GetAlertsQueryRaises

SpecQuery == Init /\ [][NextQuery]_vars

\* table.query answers or raises, and the statements of the while loop are
\* executed one after the other: a loop that can take a turn takes it.
QueryStep == GetAlertsQuery \/ GetAlertsQueryRaises

SpecQueryFair == SpecQuery /\ WF_vars(QueryStep)

(***************************************************************************)
(* Helpers of the properties.                                              *)
(***************************************************************************)
\* The positions of seq whose element satisfies P.
Where(seq, P(_)) == {i \in 1..Len(seq) : P(seq[i])}

RECURSIVE Flatten(_)
Flatten(seqs) == IF seqs = <<>> THEN <<>> ELSE Head(seqs) \o Flatten(Tail(seqs))

\* sub is seq with some elements left out, the others in their order.
RECURSIVE IsSubsequence(_, _)
IsSubsequence(sub, seq) ==
    IF sub = <<>> THEN TRUE
    ELSE IF seq = <<>> THEN FALSE
    ELSE IF Head(sub) = Head(seq) THEN IsSubsequence(Tail(sub), Tail(seq))
    ELSE IsSubsequence(sub, Tail(seq))

Messages(tr) == {tr[i].message : i \in 1..Len(tr)}

\* Dry-run/local mode is not configured: the variable is unset or "False".
NotConfiguredLocal ==
    RUNNING_LOCALLY \in {RunningLocallyOf(Unset), RunningLocallyOf("False")}

\* The run in progress has finished: the state between the finally block of
\* Agent.run and the return to its caller.
RunFinished == pc = "run_done"

\* get_alerts has returned after a read loop that ended without an exception.
ReadCompleted ==
    /\ pc = "idle"
    /\ pages # <<>>
    /\ Len(queries) = Len(pages)

\* get_alerts has returned after a table.query that raised.
ReadFailed ==
    /\ pc = "idle"
    /\ Len(queries) > Len(pages)

\* When a run ends, one put_item was made per confirmed row, with its score.
C1_OneWritePerConfirmedRow ==
    (RunFinished /\ NotConfiguredLocal /\ Where(predictions, BuildRaises) = {})
        => /\ Len(put_calls) = Len(predictions)
           /\ \A i \in 1..Len(put_calls) :
                  put_calls[i].OriginalStressLevel = predictions[i].stress_level

\* A read of the file of the last run returns one alert per confirmed row,
\* with its score.
C1_OneAlertPerConfirmedRow ==
    (/\ ReadCompleted
     /\ NotConfiguredLocal
     /\ last_run.ran
     /\ last_run.fresh
     /\ Where(last_run.confirmed, BuildRaises) = {}
     /\ pk_to_query = PK(last_run.source_filename))
        => /\ response.statusCode = 200
           /\ Len(response.alerts) = Len(last_run.confirmed)
           /\ \A row \in {last_run.confirmed[i] : i \in 1..Len(last_run.confirmed)} :
                  LET SameScore(alert) == Tenths(alert.stress_score) = row.stress_level
                      SameRow(r) == r = row
                  IN  Cardinality(Where(response.alerts, SameScore))
                          >= Cardinality(Where(last_run.confirmed, SameRow))

(***************************************************************************)
(* C1.  End to end, dry-run/local mode not configured: when a run ends,    *)
(* the table has received exactly one put_item per confirmed row, and a    *)
(* later query for the file of the run returns exactly one alert per       *)
(* confirmed row, with the raw stress score of that row.  (Stated for      *)
(* rows whose record builds, writes that succeed and a file the table      *)
(* held nothing of.)                                                       *)
(***************************************************************************)
C1_EndToEnd == C1_OneWritePerConfirmedRow /\ C1_OneAlertPerConfirmedRow

PageItems == [i \in 1..Len(pages) |-> pages[i].Items]

(***************************************************************************)
(* C2.  Paginated read: when the table answers in K pages, the first K-1   *)
(* with a continuation token and the K-th without, get_alerts issues       *)
(* exactly K queries, each after the first with the token of the page      *)
(* before it as start key, and the items it transforms are the K pages'    *)
(* items in page order: the whole partition, never only the first page.    *)
(***************************************************************************)
C2_PaginatedRead ==
    ReadCompleted =>
        LET K == Len(pages)
        IN  /\ Len(queries) = K
            /\ \A i \in 1..(K - 1) : pages[i].LastEvaluatedKey # NoKey
            /\ pages[K].LastEvaluatedKey = NoKey
            /\ queries[1] = NoKey
            /\ \A i \in 2..K : queries[i] = pages[i - 1].LastEvaluatedKey
            /\ all_items = Flatten(PageItems)
            /\ all_items = Partition(table, pk_to_query)

\* A read that took three pages.
C2_Witness == ReadCompleted /\ Len(pages) = 3 /\ Len(all_items) > Len(pages[1].Items)

Featurizes(row) == ~FeaturizeRaises(row)

InferenceReturned == "run_inference" \in {calls[i] : i \in 1..Len(calls)} /\ pc # "run_infer"

(***************************************************************************)
(* C3.  Per-row isolation of run_inference: of the N filtered rows, the M  *)
(* that fail featurization are skipped and exactly the other N-M are       *)
(* handed to the classifier; a row that raises, in featurization or in     *)
(* the classifier, stops no later row; and run_inference returns to        *)
(* Agent.run, which logs its result.                                       *)
(***************************************************************************)
C3_InferenceIsolation ==
    /\ pc = "run_infer" =>
           /\ row_idx \in 1..(Len(filtered_df.rows) + 1)
           /\ attempted = SelectSeq(SubSeq(filtered_df.rows, 1, row_idx - 1), Featurizes)
    /\ InferenceReturned =>
           LET N == Len(filtered_df.rows)
               M == Cardinality(Where(filtered_df.rows, FeaturizeRaises))
           IN  /\ Len(attempted) = N - M
               /\ attempted = SelectSeq(filtered_df.rows, Featurizes)
               /\ Len(skipped) = M + Cardinality(Where(attempted, ClassifierRaises))
               /\ "Observation: Model inference complete." \in Messages(trace)

\* A row was classified after an earlier row had raised.
C3_Witness ==
    /\ InferenceReturned
    /\ Len(filtered_df.rows) = 2
    /\ FeaturizeRaises(filtered_df.rows[1]) \/ ClassifierRaises(filtered_df.rows[1])
    /\ attempted # <<>>
    /\ attempted[Len(attempted)] = filtered_df.rows[2]

IsOk(outcome) == outcome = "ok"

StorageReturned == RunFinished /\ "store_predictions" \in {calls[i] : i \in 1..Len(calls)}

(***************************************************************************)
(* C4.  Per-record isolation of store_predictions: a record that fails,    *)
(* while it is built or in put_item, stops no later record; the count      *)
(* returned is the number of records that did not fail; and the run goes   *)
(* from storing to finished whatever the number of failures.               *)
(***************************************************************************)
C4_WriteIsolation ==
    /\ pc = "run_store" => Len(outcomes) = row_idx - 1 /\ row_idx <= Len(predictions) + 1
    /\ StorageReturned =>
           /\ Len(outcomes) = Len(predictions)
           /\ \A i \in 1..Len(predictions) : BuildRaises(predictions[i]) <=> outcomes[i] = "build"
           /\ items_inserted = Cardinality(Where(outcomes, IsOk))
           /\ Len(trace) >= 2
           /\ trace[Len(trace) - 1] = [message |-> "Observation: Storage complete.",
                                        data |-> [items_inserted |-> items_inserted]]
           /\ trace[Len(trace)].message = "Agent run finished."

\* A record was written after an earlier record had failed.
C4_Witness ==
    /\ StorageReturned
    /\ Len(outcomes) = 2
    /\ outcomes[1] # "ok"
    /\ outcomes[2] = "ok"
    /\ put_calls # <<>>
    /\ put_calls[Len(put_calls)] \in table

LoadFailed == RunFinished /\ filtered_df.is_none

(***************************************************************************)
(* C5.  A batch that cannot be loaded halts the run: Agent.run calls       *)
(* neither run_inference nor store_predictions, nothing is classified or   *)
(* written, the trace records the load failure, and the run returns        *)
(* through its finally block.                                              *)
(***************************************************************************)
C5_LoadFailureHalts ==
    LoadFailed =>
        /\ calls = <<"load_and_filter_data">>
        /\ attempted = <<>>
        /\ put_calls = <<>>
        /\ items_inserted = 0
        /\ "Observation: Data loading failed. Halting run." \in Messages(trace)
        /\ trace[Len(trace)].message = "Agent run finished."
        /\ emitted = 1

C5_Witness == LoadFailed /\ ~batch.readable /\ Len(trace) = 4

EmptyFiltered == RunFinished /\ ~filtered_df.is_none /\ filtered_df.rows = <<>>

\* The trace of a run of `path` that halted on a load failure.
LoadFailureTrace(path) ==
    <<[message |-> "Agent run started.", data |-> [file_path |-> path]],
      [message |-> "Initiating action: Load and filter data.", data |-> NoData],
      [message |-> "Observation: Data loading failed. Halting run.", data |-> NoData],
      [message |-> "Agent run finished.", data |-> NoData]>>

(***************************************************************************)
(* C6.  A batch that loads but has no row over the threshold is an empty   *)
(* success: the run halts with nothing classified, nothing written and no  *)
(* error entry in the trace, and its trace is not the trace of a load      *)
(* failure.                                                                *)
(***************************************************************************)
C6_EmptyBatchIsSuccess ==
    /\ EmptyFiltered =>
           /\ calls = <<"load_and_filter_data">>
           /\ attempted = <<>>
           /\ put_calls = <<>>
           /\ \A i \in 1..Len(trace) :
                  /\ "error" \notin DOMAIN trace[i].data
                  /\ trace[i].message # "An unexpected error occurred during the run."
                  /\ trace[i].message # "Observation: Data loading failed. Halting run."
           /\ trace # LoadFailureTrace(file_path)
           /\ trace[Len(trace)].message = "Agent run finished."
    /\ LoadFailed => trace = LoadFailureTrace(file_path)

\* A batch with rows, none of them over the threshold.
C6_Witness == EmptyFiltered /\ batch.readable /\ batch.rows # <<>>

\* lambda_handler has handed the event to get_alerts.
RoutedToGetAlerts == invocations > 0 /\ clients_ok /\ IsGetAlerts(event)

LacksSourceFile(e) ==
    ~e.queryStringParameters.present \/ ~e.queryStringParameters.has_source_file

(***************************************************************************)
(* C7.  A query request without the source_file key, with no query         *)
(* parameters at all or with other ones, is answered 400 and no            *)
(* table.query is made for it.                                             *)
(***************************************************************************)
C7_MissingSourceFile ==
    (RoutedToGetAlerts /\ LacksSourceFile(event)) =>
        /\ pc = "idle"
        /\ response = ErrorBody(400, "The 'source_file' query parameter is required.")
        /\ queries = <<>>
        /\ pages = <<>>

\* The request had no query parameters at all.
C7_Witness ==
    /\ RoutedToGetAlerts
    /\ ~event.queryStringParameters.present
    /\ response.statusCode = 400

(***************************************************************************)
(* C8.  A table.query that raises, on the first page or on a later one,    *)
(* makes get_alerts answer 500 with an error message only: no item of the  *)
(* pages fetched before it is in the response.                             *)
(***************************************************************************)
C8_QueryFailure ==
    ReadFailed =>
        /\ response.statusCode = 500
        /\ response.kind = "error"
        /\ response.message = "Could not retrieve alerts."
        /\ response.alerts = <<>>

\* The query of a later page raised, with items already fetched.
C8_Witness == ReadFailed /\ pages # <<>> /\ all_items # <<>>

(***************************************************************************)
(* C9.  Transform isolation: an item whose Timestamp is missing or is not  *)
(* in the canonical format still gives an alert, with timestamp null; the  *)
(* alerts of the other items are not affected; the response is 200 with    *)
(* one alert per fetched item.                                             *)
(***************************************************************************)
C9_TransformIsolation ==
    ReadCompleted =>
        /\ response.statusCode = 200
        /\ Len(response.alerts) = Len(all_items)
        /\ \A i \in 1..Len(all_items) :
               /\ response.alerts[i].record_id = all_items[i].SourceFile
               /\ response.alerts[i].timestamp =
                      IF all_items[i].Timestamp.kind = "canonical"
                      THEN IsoTime(all_items[i].Timestamp.sec)
                      ELSE NullTime

Over42(row) == row.stress_level > 420

Loaded == calls # <<>> /\ batch.readable

(***************************************************************************)
(* C10.  Threshold pre-filter: of a batch that loads, load_and_filter_data *)
(* returns exactly the rows with stress_level strictly over 42, in their   *)
(* order in the batch; a row at 42 or under is left out.                   *)
(***************************************************************************)
C10_ThresholdFilter ==
    Loaded =>
        /\ ~filtered_df.is_none
        /\ \A i \in 1..Len(filtered_df.rows) : filtered_df.rows[i].stress_level > 420
        /\ Len(filtered_df.rows) = Cardinality(Where(batch.rows, Over42))
        /\ IsSubsequence(filtered_df.rows, batch.rows)

\* A batch with a row at exactly 42, left out, and a row over it, kept.
C10_Witness ==
    /\ Loaded
    /\ Len(batch.rows) = 2
    /\ batch.rows[1].stress_level = 420
    /\ filtered_df.rows = <<batch.rows[2]>>

\* Dry-run/local mode is configured: the variable is set to "True".
ConfiguredLocal == RUNNING_LOCALLY = RunningLocallyOf("True")

Builds(row) == ~BuildRaises(row)

(***************************************************************************)
(* C11.  Dry-run switch: store_predictions hands a record to put_item if   *)
(* and only if dry-run/local mode is not configured (RUNNING_LOCALLY unset *)
(* or "False"); with the mode configured it makes no put_item and still    *)
(* counts the record as inserted.  (Stated for the records that build.)    *)
(***************************************************************************)
C11_DryRunSwitch ==
    StorageReturned =>
        LET built == SelectSeq(predictions, Builds)
        IN  /\ NotConfiguredLocal =>
                   /\ Len(put_calls) = Len(built)
                   /\ \A i \in 1..Len(put_calls) :
                          put_calls[i].OriginalStressLevel = built[i].stress_level
            /\ ConfiguredLocal =>
                   /\ put_calls = <<>>
                   /\ items_inserted = Len(built)

IsFinishedEntry(entry) == entry.message = "Agent run finished."

\* Agent.run is between its first statement and its finally block.
RunInProgress == pc \in {"run_load", "run_infer", "run_store"}

(***************************************************************************)
(* C12.  The run always finishes with the trace flushed: whichever way     *)
(* Agent.run ends (load failure, empty filter, no prediction, storage      *)
(* done, or an exception let out by a stage), it returns, the trace has    *)
(* been printed exactly once and its last entry is its only 'Agent run     *)
(* finished.' entry; when a stage raised, the entry before the last        *)
(* carries the text of the exception.  Before the run ends the trace is    *)
(* not printed and has no such entry; and a run that has started ends.     *)
(***************************************************************************)
C12_RunAlwaysFinishes ==
    /\ [](RunFinished =>
            /\ emitted = 1
            /\ trace # <<>>
            /\ IsFinishedEntry(trace[Len(trace)])
            /\ Cardinality(Where(trace, IsFinishedEntry)) = 1
            /\ caught # NoError =>
                   /\ Len(trace) >= 2
                   /\ trace[Len(trace) - 1].data = [error |-> caught]
            /\ caught = NoError =>
                   \A i \in 1..Len(trace) : "error" \notin DOMAIN trace[i].data)
    /\ [](RunInProgress => emitted = 0 /\ Where(trace, IsFinishedEntry) = {})
    /\ (pc = "run_start" ~> RunFinished)

\* A run that ended on an exception of the inference or the storage stage.
C12_Witness ==
    /\ RunFinished
    /\ caught # NoError
    /\ "Observation: Data loaded and filtered successfully." \in Messages(trace)

\* The states of the run state machine the run has gone through so far, in
\* order: STARTED when run() begins, LOADING when load_and_filter_data is
\* called, FILTERED when it returned a DataFrame, INFERRING and STORING when
\* run_inference and store_predictions are called, ERRORED in the except
\* clause and FINISHED in the finally clause.
StatesVisited ==
    LET called(stage) == stage \in {calls[i] : i \in 1..Len(calls)}
        loading == <<"STARTED", "LOADING">>
        inferring == loading \o <<"FILTERED", "INFERRING">>
        storing == inferring \o <<"STORING">>
        reached == IF called("store_predictions") THEN storing
                   ELSE IF called("run_inference") THEN inferring
                   ELSE loading
    IN  CASE pc = "run_load" -> loading
          [] pc = "run_infer" -> inferring
          [] pc = "run_store" -> storing
          [] pc = "run_done" ->
                 IF caught # NoError THEN reached \o <<"ERRORED", "FINISHED">>
                 ELSE IF called("run_inference") THEN reached \o <<"FINISHED">>
                 ELSE IF filtered_df.is_none THEN loading \o <<"FINISHED">>
                 ELSE loading \o <<"FILTERED", "FINISHED">>
          [] OTHER -> <<>>

\* The transitions the run has taken so far, counted.
TransitionsTaken == IF StatesVisited = <<>> THEN 0 ELSE Len(StatesVisited) - 1

\* The entries Agent.run appends on a transition: the _log calls between
\* the moment the run is in the first state and the moment it is in the
\* second.  load_and_filter_data logs nothing into the trace, so nothing is
\* appended between its call and its return.
EntriesOf(from, to) ==
    CASE from = "STARTED" /\ to = "LOADING" -> 2
      [] from = "LOADING" /\ to = "FILTERED" -> 0
      [] from = "LOADING" /\ to = "FINISHED" -> 2
      [] from = "FILTERED" /\ to = "INFERRING" -> 2
      [] from = "FILTERED" /\ to = "FINISHED" -> 2
      [] from = "INFERRING" /\ to = "STORING" -> 2
      [] from = "INFERRING" /\ to = "FINISHED" -> 3
      [] from = "STORING" /\ to = "FINISHED" -> 2
      [] from \in {"LOADING", "INFERRING", "STORING"} /\ to = "ERRORED" -> 1
      [] from = "ERRORED" /\ to = "FINISHED" -> 1

\* The entries of a run that has gone through `states`: the trace of a new
\* Agent is empty, then come the entries of every transition.
RECURSIVE EntriesFor(_)
EntriesFor(states) ==
    IF Len(states) <= 1 THEN 0
    ELSE EntriesFor(SubSeq(states, 1, Len(states) - 1))
             + EntriesOf(states[Len(states) - 1], states[Len(states)])

\* trace' is trace with entries appended at its end.
Extends(longer, shorter) ==
    /\ Len(longer) >= Len(shorter)
    /\ SubSeq(longer, 1, Len(shorter)) = shorter

\* The statement as the specification has it: one entry per transition, so
\* as many entries as transitions.
C13_OneEntryPerTransition ==
    (RunInProgress \/ RunFinished) => Len(trace) = TransitionsTaken

(***************************************************************************)
(* C13.  A transition of the run state machine appends at most three       *)
(* entries to the trace, and not always one: none for LOADING -> FILTERED, *)
(* one for a stage -> ERRORED and for ERRORED -> FINISHED, three for       *)
(* INFERRING -> FINISHED, two for every other transition (STARTED ->       *)
(* LOADING, LOADING -> FINISHED, FILTERED -> INFERRING, FILTERED ->        *)
(* FINISHED, INFERRING -> STORING, STORING -> FINISHED).  The trace of a   *)
(* run has more entries than the run took transitions and at most twice    *)
(* as many; the entries of a trace are only ever appended, never removed   *)
(* or reordered.                                                           *)
(***************************************************************************)
C13_AppendOnlyTrace ==
    /\ []((RunInProgress \/ RunFinished) =>
             /\ Len(trace) = EntriesFor(StatesVisited)
             /\ TransitionsTaken < Len(trace)
             /\ Len(trace) <= 2 * TransitionsTaken)
    /\ [][pc' \in {"run_load", "run_infer", "run_store", "run_done"} =>
             /\ Extends(StatesVisited', StatesVisited)
             /\ Len(trace') - Len(trace)
                    = EntriesFor(StatesVisited') - EntriesFor(StatesVisited)
             /\ Len(trace') - Len(trace) <= 3 * (TransitionsTaken' - TransitionsTaken)]_vars
    /\ [][\/ Extends(trace', trace)
          \/ pc' \in {"idle", "run_start", "s3_loop"} /\ trace' = <<>>]_vars

\* A run whose inference confirmed no prediction has finished: four
\* transitions and seven entries, the last three appended by INFERRING ->
\* FINISHED.
C13_Witness ==
    /\ RunFinished
    /\ caught = NoError
    /\ StatesVisited = <<"STARTED", "LOADING", "FILTERED", "INFERRING", "FINISHED">>
    /\ TransitionsTaken = 4
    /\ Len(trace) = 7
    /\ trace[5].message = "Observation: Model inference complete."
    /\ trace[6].message = "Observation: No high-stress predictions to store."
    /\ trace[7].message = "Agent run finished."

\* The items written by all the concurrent invocations.
AllWritten == UNION {workers[w].written : w \in Workers}

\* The put_item calls of all the concurrent invocations, as <<invocation, position>>.
AllPutCalls == {c \in Workers \X (1..MaxRows) : c[2] <= Len(workers[c[1]].put_calls)}

PutCall(c) == workers[c[1]].put_calls[c[2]]

(***************************************************************************)
(* C14.  Partition-key invariant: the records in the table that share a    *)
(* partition key were written from the same source batch: ingest runs of   *)
(* two different S3 objects never write records under the same PK.         *)
(***************************************************************************)
C14_PartitionKeyInvariant ==
    \A w1, w2 \in Workers :
        workers[w1].s3_key # workers[w2].s3_key =>
            \A a \in workers[w1].written, b \in workers[w2].written : a.PK # b.PK

(***************************************************************************)
(* C15.  Concurrent ingest invocations do not conflict: in every           *)
(* interleaving of their writes, made without any locking, no put_item     *)
(* targets the (PK, SK) key of another put_item or of an item the table    *)
(* held before, no record is overwritten or lost, and the table holds      *)
(* what it held before together with the records of every invocation.      *)
(***************************************************************************)
C15_NoWriteConflict ==
    /\ \A c, d \in AllPutCalls : c # d => KeyOf(PutCall(c)) # KeyOf(PutCall(d))
    /\ \A c \in AllPutCalls : \A item \in table \ AllWritten : KeyOf(PutCall(c)) # KeyOf(item)
    /\ AllWritten \subseteq table
    /\ table \ AllWritten \in LegacyTables
    /\ \A w \in Workers :
           /\ Cardinality(workers[w].written) <= Len(workers[w].put_calls)
           /\ workers[w].row_idx > Len(workers[w].predictions) =>
                  workers[w].items_inserted =
                      IF WritesToTable(RUNNING_LOCALLY)
                      THEN Cardinality(workers[w].written)
                      ELSE Len(SelectSeq(workers[w].predictions, Builds))

\* Two invocations have written, turn by turn, records of the same location
\* under the same partition key, and the table holds them all.
C15_Witness ==
    \E w1, w2 \in Workers :
        /\ w1 # w2
        /\ Cardinality(workers[w1].written) = 2
        /\ \E a \in workers[w1].written, b \in workers[w2].written, c \in workers[w1].written :
               /\ a.PK = b.PK
               /\ a.LocationID = b.LocationID
               /\ a.UserID < b.UserID
               /\ b.UserID < c.UserID
        /\ AllWritten \subseteq table

\* The file of the last run has been read back.
ReadBack ==
    /\ ReadCompleted
    /\ last_run.ran
    /\ pk_to_query = PK(last_run.source_filename)

\* The label run_inference confirmed the row with.
PredictedLabel(row) == IF PredictedHighStress(row) THEN 1 ELSE 0

(***************************************************************************)
(* C16.  Round trip: every confirmed row that store_predictions wrote for  *)
(* a batch is read back, by the query of get_alerts for the partition key  *)
(* SOURCEFILE#<file name of the batch>, as a record whose LocationID,      *)
(* OriginalStressLevel and PredictedStressLabel are the location, the      *)
(* stress level and the predicted label of the row.                        *)
(***************************************************************************)
C16_RoundTrip ==
    ReadBack =>
        \A w \in last_run.written :
            \E i \in 1..Len(all_items) :
                /\ all_items[i].SK = w.item.SK
                /\ all_items[i].LocationID = w.row.location_id
                /\ all_items[i].OriginalStressLevel = w.row.stress_level
                /\ all_items[i].PredictedStressLabel = PredictedLabel(w.row)

\* Two rows written, one of them with the fractional level 42.5 and a
\* location outside the known ones, and read back.
C16_Witness ==
    /\ ReadBack
    /\ Cardinality(last_run.written) = 2
    /\ \E w \in last_run.written : w.row.stress_level = 425 /\ w.row.location_id = 999
    /\ Len(all_items) >= 2

\* The locations the model was trained with.
KnownLocations ==
    {TRAINING_COLUMNS[i][2][1] : i \in (Len(NUMERICAL_FEATURES) + 1)..Len(TRAINING_COLUMNS)}

\* The vector is laid out as TRAINING_COLUMNS for the row: the numerical
\* cells of the row in the order of NUMERICAL_FEATURES, then one column per
\* known location, 1 at the location of the row and 0 elsewhere.
LaidOutFor(vector, row) ==
    /\ Len(vector) = 8 + 5
    /\ Len(vector) = Len(TRAINING_COLUMNS)
    /\ \A i \in 1..Len(TRAINING_COLUMNS) :
           vector[i] = IF TRAINING_COLUMNS[i][1] = "location_id"
                       THEN (IF TRAINING_COLUMNS[i][2] = <<row.location_id>> THEN 1 ELSE 0)
                       ELSE row[TRAINING_COLUMNS[i][1]]
    /\ LET location_columns == (Len(NUMERICAL_FEATURES) + 1)..Len(TRAINING_COLUMNS)
           ones == {i \in location_columns : vector[i] = 1}
       IN  /\ \A i \in location_columns : vector[i] \in {0, 1}
           /\ row.location_id \in KnownLocations => Cardinality(ones) = 1
           /\ row.location_id \notin KnownLocations => ones = {}

(***************************************************************************)
(* C17.  Shape of the feature vector: for every row, of a known location   *)
(* (101..105) or not, the array handed to the classifier has 8 + 5         *)
(* entries in the order of TRAINING_COLUMNS; a known location sets its     *)
(* one location column to 1 and the other four to 0, an unknown location   *)
(* leaves all five at 0; and a row of an unknown location raises nothing   *)
(* and is not dropped: it is handed to the classifier like any other.      *)
(***************************************************************************)
C17_FeatureVectorShape ==
    /\ attempted # <<>> => LaidOutFor(model_input, attempted[Len(attempted)])
    /\ attempted = <<>> => model_input = NoInput
    /\ pc = "run_infer" =>
           \A i \in 1..(row_idx - 1) :
               (Featurizes(filtered_df.rows[i]) /\ filtered_df.rows[i].location_id \notin KnownLocations)
                   => \E j \in 1..Len(attempted) : attempted[j] = filtered_df.rows[i]

\* The row is confirmed: its cells are numbers and the classifier answers 1
\* for it.
Confirmed(row) == row.features = "numeric" /\ row.label = "1"

(***************************************************************************)
(* C18.  run_inference returns exactly the input rows that were            *)
(* featurized and classified without an exception and predicted 1, each    *)
(* once per occurrence in the input and in the order of the input; no row  *)
(* predicted 0 and no row that failed is in the result.                    *)
(***************************************************************************)
C18_InferenceResult ==
    /\ pc = "run_infer" =>
           predictions = SelectSeq(SubSeq(filtered_df.rows, 1, row_idx - 1), Confirmed)
    /\ InferenceReturned =>
           /\ predictions = SelectSeq(filtered_df.rows, Confirmed)
           /\ IsSubsequence(predictions, filtered_df.rows)
           /\ \A i \in 1..Len(predictions) :
                  /\ predictions[i].label = "1"
                  /\ predictions[i].features = "numeric"

\* Of two rows the first was predicted 0 or failed, the second is returned.
C18_Witness ==
    /\ InferenceReturned
    /\ Len(filtered_df.rows) = 2
    /\ ~Confirmed(filtered_df.rows[1])
    /\ predictions = <<filtered_df.rows[2]>>

\* The item was built from the row.
BuiltFrom(item, row) ==
    /\ item.LocationID = row.location_id
    /\ item.OriginalStressLevel = row.stress_level
    /\ item.Timestamp = Strftime(row.timestamp)

\* The items the table holds that store_predictions wrote.
Persisted == table \ LegacyItems

(***************************************************************************)
(* C19.  Confirmed-alert invariant: every record store_predictions has     *)
(* put in the table carries PredictedStressLabel = 1 and a stress level    *)
(* over 42, and every record the run in progress has put was built from a  *)
(* row of its batch that is over the threshold and that the classifier     *)
(* answered 1 for; no record is written for a row that was filtered out,   *)
(* predicted 0, or that failed inference.                                  *)
(***************************************************************************)
C19_ConfirmedAlertInvariant ==
    /\ \A item \in Persisted :
           /\ item.PredictedStressLabel = 1
           /\ item.OriginalStressLevel > Tenths(STRESS_THRESHOLD)
    /\ \A i \in 1..Len(put_calls) :
           /\ put_calls[i].PK = PK(Basename(file_path))
           /\ \E j \in 1..Len(batch.rows) :
                  /\ BuiltFrom(put_calls[i], batch.rows[j])
                  /\ batch.rows[j].stress_level > Tenths(STRESS_THRESHOLD)
                  /\ Confirmed(batch.rows[j])
    /\ Len(put_calls) <= Cardinality(Where(batch.rows, Confirmed))
    /\ (pc \notin {"run_store", "run_done"}) => put_calls = <<>>

\* A batch of a row that is not confirmed and one that is: one record.
C19_Witness ==
    /\ RunFinished
    /\ Len(batch.rows) = 2
    /\ ~Confirmed(batch.rows[1]) \/ ~ExceedsThreshold(batch.rows[1])
    /\ Len(put_calls) = 1
    /\ put_calls[1] \in table
    /\ BuiltFrom(put_calls[1], batch.rows[2])

\* lambda_handler was handed an event that is neither an API Gateway event
\* nor an SQS event, with every client initialized.
Unroutable == invocations > 0 /\ clients_ok /\ event.source \in {"none", "raises"}

(***************************************************************************)
(* C20.  Unrecognized input: with local mode not enabled (RUNNING_LOCALLY  *)
(* unset or "False") and every client initialized, an event that is        *)
(* neither an API Gateway event nor an SQS event is answered 400           *)
(* 'Unrecognized event source.' and no Agent is run; the local batch runs  *)
(* only with local mode enabled.                                           *)
(***************************************************************************)
C20_UnrecognizedEvent ==
    (Unroutable /\ NotConfiguredLocal) =>
        /\ pc = "idle"
        /\ response = TextBody(400, "Unrecognized event source.")
        /\ caller = "none"

\* handle_sqs_event is at work: in its loops, or in the Agent it runs.
SqsHandling ==
    \/ pc \in {"sqs_loop", "s3_loop"}
    \/ caller = "sqs" /\ pc \in {"run_start", "run_load", "run_infer", "run_store", "run_done"}

\* lambda_handler has returned from its SQS branch.
SqsReturned == pc = "idle" /\ clients_ok /\ event.source = "sqs"

\* The trace is that of one run of the file at path, from its start.
TraceOfOneRun(tr, path) ==
    /\ tr # <<>>
    /\ tr[1] = [message |-> "Agent run started.", data |-> [file_path |-> path]]
    /\ \A i \in 2..Len(tr) : tr[i].message # "Agent run started."

(***************************************************************************)
(* C21.  Isolation of the queued notifications: whatever fails while one   *)
(* SQS record is handled (a body that is not JSON, an S3 record without    *)
(* its s3 fields, a download that raises), the loop takes every record of  *)
(* the event, so that a failed record never keeps a later one from being   *)
(* handled; every downloaded file is run by an Agent created for it,       *)
(* whose trace starts empty and holds the entries of that run only; and    *)
(* lambda_handler answers 200 "Processing complete." however many records  *)
(* failed.                                                                 *)
(***************************************************************************)
C21_NotificationIsolation ==
    /\ SqsHandling =>
           /\ Len(sqs_handled) + Len(sqs_records) = sqs_received
           /\ pc # "sqs_loop" => sqs_handled # <<>>
    /\ SqsReturned =>
           /\ Len(sqs_handled) = sqs_received
           /\ sqs_received > 0
           /\ response = TextBody(200, "Processing complete.")
    /\ (caller = "sqs" /\ pc = "run_start") =>
           /\ file_path = DownloadPath(s3_key)
           /\ trace = <<>>
           /\ emitted = 0
           /\ calls = <<>>
           /\ predictions = <<>>
           /\ put_calls = <<>>
    /\ (caller = "sqs" /\ pc \in {"run_load", "run_infer", "run_store", "run_done"}) =>
           /\ file_path = DownloadPath(s3_key)
           /\ TraceOfOneRun(trace, file_path)
           /\ pc = "run_done" => emitted = 1

\* The first record of the event failed, the second was handled and its
\* file run, and the handler answered 200.
C21_Witness ==
    /\ SqsReturned
    /\ sqs_handled = <<"failed", "ok">>
    /\ last_run.ran
    /\ response.statusCode = 200

\* The pages received so far that carry no continuation token.
LastPages == {i \in 1..Len(pages) : pages[i].LastEvaluatedKey = NoKey}

\* get_alerts is in its read loop.
Reading == pc = "ga_query"

\* get_alerts has returned a response.
Answered == pc = "idle" /\ response # NoResponse

(***************************************************************************)
(* C22.  Termination of the paginated read: the table returning a page     *)
(* without continuation token after finitely many pages, or raising,       *)
(* get_alerts that has entered its read loop eventually returns a          *)
(* response.  While the loop runs, every page received carried a token     *)
(* and was followed by exactly one query, started at that token; the loop  *)
(* ends at the first page without a token, which is the last page          *)
(* received, and no query is issued after it, nor after a query that       *)
(* raised.                                                                 *)
(***************************************************************************)
C22_PaginationTerminates ==
    /\ [](Reading =>
            /\ LastPages = {}
            /\ Len(queries) = Len(pages)
            /\ query_kwargs = IF pages = <<>> THEN NoKey
                              ELSE pages[Len(pages)].LastEvaluatedKey)
    /\ [](ReadCompleted =>
            /\ LastPages = {Len(pages)}
            /\ Len(queries) = Len(pages)
            /\ response.statusCode \in {200, 500})
    /\ [](ReadFailed =>
            /\ LastPages = {}
            /\ Len(queries) = Len(pages) + 1
            /\ response.statusCode = 500)
    /\ [][~Reading => (queries' = queries \/ queries' = <<>>)]_vars
    /\ [][(Reading /\ ~Reading') => Answered']_vars
    /\ (Reading ~> Answered)

\* A read that ended at its third page, an empty one, the two pages before
\* it carrying a token.
C22_Witness ==
    /\ ReadCompleted
    /\ Answered
    /\ Len(pages) = 3
    /\ pages[3].Items = <<>>
    /\ LastPages = {3}

=============================================================================
